---- MODULE Spec2Model ----
(***************************************************************************)
(* Earnings simulation and ledger consistency engine.                      *)
(*                                                                         *)
(*   store/appStore.ts            wallet, assets, accruedMinor, ledger     *)
(*   hooks/useRunOrderEngine.ts   daily plan, order emission, timers       *)
(*   components/run/RunControlPanel.tsx   start-run / stop                 *)
(*   pages/Run.tsx                host of the engine, EARN posting         *)
(*   components/system/DataSyncBootstrapper.tsx   server hydration         *)
(*                                                                         *)
(* Money is in integer minor units.  Crypto holdings are doubles in the    *)
(* source; here they are counted in units of 1e-6 coin.                    *)
(***************************************************************************)
EXTENDS Integers, Sequences, FiniteSets, TLC

(***************************************************************************)
(* 32-bit words.  A word is a pair <<hi, lo>> of 16-bit halves, because    *)
(* the values of seededRand01 do not fit a signed 32-bit integer.          *)
(***************************************************************************)
H16 == 65536

RECURSIVE Xor16(_, _, _)
Xor16(a, b, n) ==
  IF n = 0 THEN 0
  ELSE (((a % 2) + (b % 2)) % 2) + 2 * Xor16(a \div 2, b \div 2, n - 1)

RECURSIVE Or16(_, _, _)
Or16(a, b, n) ==
  IF n = 0 THEN 0
  ELSE (IF (a % 2) = 1 \/ (b % 2) = 1 THEN 1 ELSE 0) + 2 * Or16(a \div 2, b \div 2, n - 1)

RECURSIVE Pow2(_)
Pow2(n) == IF n = 0 THEN 1 ELSE 2 * Pow2(n - 1)

\* a non-negative integer below 2^31 as a word
ToWord(x) == <<x \div H16, x % H16>>

Xor32(x, y) == <<Xor16(x[1], y[1], 16), Xor16(x[2], y[2], 16)>>

Or32(x, y) == <<Or16(x[1], y[1], 16), Or16(x[2], y[2], 16)>>

\* x + y modulo 2^32
Add32(x, y) ==
  LET lo == x[2] + y[2]
  IN  <<(x[1] + y[1] + (lo \div H16)) % H16, lo % H16>>

\* x >>> n for 0 < n < 16
Shr32(x, n) ==
  <<x[1] \div Pow2(n), (x[2] \div Pow2(n)) + (x[1] % Pow2(n)) * Pow2(16 - n)>>

\* the low 16 bits of the product of two 16-bit halves
MulLo16(a, b) == (a * (b % 256) + ((a * (b \div 256)) % 256) * 256) % H16

\* Math.imul: the low 32 bits of x * y
Imul32(x, y) ==
  LET p0    == x[2] * (y[2] % 256)
      p1    == x[2] * (y[2] \div 256)
      low   == p0 + (p1 % 256) * 256
      carry == (low \div H16) + (p1 \div 256)
  IN  <<(carry + MulLo16(x[1], y[2]) + MulLo16(x[2], y[1])) % H16, low % H16>>

\* 0x6D2B79F5
SeedOffset == <<27947, 31221>>

\* t = Math.imul(t ^ (t >>> 15), 1 | t)
mixLow(t) == Imul32(Xor32(t, Shr32(t, 15)), Or32(t, ToWord(1)))

\* t ^= t + Math.imul(t ^ (t >>> 7), 61 | t)
mixHigh(t) == Xor32(t, Add32(t, Imul32(Xor32(t, Shr32(t, 7)), Or32(t, ToWord(61)))))

\* (t ^ (t >>> 14)) >>> 0
mixOut(t) == Xor32(t, Shr32(t, 14))

\* seededRand01: the 32-bit numerator u of the result u / 2^32
seededRand01(seed) == mixOut(mixHigh(mixLow(Add32(seed, SeedOffset))))

(***************************************************************************)
(* Calendar.  todayKey() is the local date as YYYYMMDD; the model's clock  *)
(* is a day index counted from BaseDay.                                    *)
(***************************************************************************)
BaseDay == 20240101

todayKey(d) == BaseDay + d

(***************************************************************************)
(* buildPlan (hooks/useRunOrderEngine.ts).  Doubles are evaluated in exact *)
(* integer arithmetic: with u the numerator of seededRand01,               *)
(*   jitter = (9 * 2^32 + 2u) / (10 * 2^32),                               *)
(*   targetSumMinor = round(inv * base * jitter / 30)   (inv in minor),    *)
(* and Math.round(x) = floor(x + 1/2).                                     *)
(***************************************************************************)

\* Math.floor(invMain * 100) with invMain = inv / 100.  The double product is
\* exact for whole-dollar amounts (multiples of 100 minor units below 3e6),
\* which are the only running amounts the inputs below can produce.
seedAmount(inv) == inv

\* floor(inv * u / 2^30) for 0 <= inv < 2^28 and a word u
MulShift30(inv, u) ==
  LET a == inv \div 16384
      b == inv % 16384
      L == (a * u[2] + ((b * u[2]) \div 16384)) \div 4
  IN  a * u[1] + ((b * u[1] + L) \div 16384)

\* monthly rate band in tenths: <10k => 30%~40%, >=10k => 60%~80%
TierThresholdMinor == 1000000

baseMonthly(inv) == IF inv < TierThresholdMinor THEN 3 ELSE 6

capMonthly(inv) == IF inv < TierThresholdMinor THEN 4 ELSE 8

\* baseMonthly * jitter > capMonthly, i.e. 2 * base * u > (10 * cap - 9 * base) * 2^32
OverCap(inv, u) ==
  LET B == baseMonthly(inv)
      K == 10 * capMonthly(inv) - 9 * B
      n == 2 * B * u[1] + ((2 * B * u[2]) \div H16)
  IN  \/ (n \div H16) > K
      \/ (n \div H16) = K /\ ((n % H16) > 0 \/ ((2 * B * u[2]) % H16) > 0)

targetSum(inv, u) ==
  IF OverCap(inv, u)
  THEN (2 * inv * capMonthly(inv) + 300) \div 600
  ELSE LET D == 3000 \div baseMonthly(inv)
       IN  (18 * inv + MulShift30(inv, u) + D) \div (2 * D)

\* 50 + Math.floor(seededRand01(daySeed + 77) * 51)
ordersCount(u) == 50 + ((u[1] * 51 + ((u[2] * 51) \div H16)) \div H16)

\* Math.max(0, x)
Max0(x) == IF x > 0 THEN x ELSE 0

NoPlan == [day |-> -1, ordersPlanned |-> 0, ordersDone |-> 0,
           targetSumMinor |-> 0, producedMinor |-> 0]

buildPlan(d, investMinor) ==
  LET inv == Max0(investMinor)
      daySeed == Xor32(ToWord(todayKey(d)), ToWord(seedAmount(inv)))
  IN  IF inv <= 0
      THEN [day |-> d, ordersPlanned |-> 0, ordersDone |-> 0,
            targetSumMinor |-> 0, producedMinor |-> 0]
      ELSE [day |-> d,
            ordersPlanned |-> ordersCount(seededRand01(Add32(daySeed, ToWord(77)))),
            ordersDone |-> 0,
            targetSumMinor |-> Max0(targetSum(inv, seededRand01(daySeed))),
            producedMinor |-> 0]

(***************************************************************************)
(* State                                                                   *)
(***************************************************************************)
VARIABLES
  wallet,        \* store: [availableMinor, pendingMinor]
  assets,        \* store: [usdtMinor, btc, eth]; btc and eth in 1e-6 coin
  accruedMinor,  \* store: accrued earnings not yet paid out
  ledger,        \* store: sequence of entries, newest first
  result,        \* what the most recent call returned or toasted
  today,         \* the clock: day index, todayKey(today) is the calendar key
  mounted,       \* the Run page (and with it the engine hook) is mounted
  running,       \* RunPage state `running`, the engine's input
  panelRunning,  \* RunControlPanel state `running`
  address,       \* RunPage state: a payout address is bound (hasAddress)
  lsRunning,     \* localStorage run_running = '1'
  lsAddress,     \* localStorage run_payout_address is set
  engine,        \* useRunOrderEngine refs: planRef, timerRef, timeouts, interval
  bootStage,     \* DataSyncBootstrapper: 0 before, 1 wallet written, 2 ledger written
  awaiting       \* store calls suspended at their simulated latency, in call order

vars == <<wallet, assets, accruedMinor, ledger, result, today, mounted, running,
          panelRunning, address, lsRunning, lsAddress, engine, bootStage,
          awaiting>>

storeVars == <<wallet, assets, accruedMinor, ledger>>

pageVars == <<mounted, running, panelRunning, address, lsRunning, lsAddress, engine>>

(***************************************************************************)
(* Bounds of the model                                                     *)
(***************************************************************************)
MaxLedger == 5

MaxDay == 1

MaxTimers == 2

(***************************************************************************)
(* Ledger entries and results                                              *)
(***************************************************************************)
Entry(type, amountMinor, currency, refId) ==
  [type |-> type, amountMinor |-> amountMinor, currency |-> currency,
   day |-> today, refId |-> refId]

NoResult == [op |-> "none", ok |-> TRUE, message |-> ""]

Ok(op) == [op |-> op, ok |-> TRUE, message |-> ""]

Fail(op, message) == [op |-> op, ok |-> FALSE, message |-> message]

\* Math.round of the non-negative quotient n / d
RoundDiv(n, d) == (2 * n + d) \div (2 * d)

(***************************************************************************)
(* Numbers that are not finite.  Every finite amount of the model lies     *)
(* strictly between NaN and Infinity, and -Infinity is below both.         *)
(***************************************************************************)
Infinity == 2000000000

NaN == -1000000000

isFinite(x) == x # NaN /\ x # Infinity /\ x # -Infinity

\* -x
Negate(x) == IF x = NaN THEN NaN ELSE -x

\* x + y
Plus(x, y) ==
  IF x = NaN \/ y = NaN THEN NaN
  ELSE IF isFinite(x) /\ isFinite(y) THEN x + y
  ELSE IF isFinite(y) THEN x
  ELSE IF isFinite(x) THEN y
  ELSE IF x = y THEN x ELSE NaN

\* x - y
Minus(x, y) == Plus(x, Negate(y))

\* x > y
Greater(x, y) == x # NaN /\ y # NaN /\ x > y

\* x <= 0
AtMostZero(x) == x # NaN /\ x <= 0

(***************************************************************************)
(* Initial store (store/appStore.ts)                                       *)
(***************************************************************************)
InitWallet == [availableMinor |-> 12000, pendingMinor |-> 0]

InitAssets == [usdtMinor |-> 12000, btc |-> 15423, eth |-> 420100]

InitAccrued == 4235

InitLedger ==
  << [type |-> "EARN", amountMinor |-> 3500, currency |-> "USD", day |-> -1, refId |-> "day-12"],
     [type |-> "PAYOUT", amountMinor |-> 10000, currency |-> "USD", day |-> -2, refId |-> "payout-1"],
     [type |-> "COMMISSION", amountMinor |-> 800, currency |-> "USD", day |-> -3, refId |-> "ref-1"] >>

(***************************************************************************)
(* useRunOrderEngine: refs and timers.                                     *)
(* A pending timeout remembers the running / investMinor values of the     *)
(* render whose closure it will run.                                       *)
(***************************************************************************)
TimerIds == 1..MaxTimers

NoInterval == [on |-> FALSE, running |-> FALSE, investMinor |-> 0]

FreshEngine == [planRef |-> NoPlan, timerRef |-> 0, timeouts |-> {}, interval |-> NoInterval]

\* window.clearTimeout(id) through the canceller held in timerRef
clearTimer(eng) ==
  IF eng.timerRef # 0
  THEN [eng EXCEPT !.timeouts = {t \in eng.timeouts : t.id # eng.timerRef}, !.timerRef = 0]
  ELSE eng

\* window.setTimeout: the handle of the new timeout
newTimerId(timeouts) ==
  LET free == {i \in TimerIds : \A t \in timeouts : t.id # i}
  IN  IF free = {} THEN MaxTimers ELSE CHOOSE i \in free : \A j \in free : i <= j

\* scheduleNext that arms a timeout without cancelling the one timerRef holds
scheduleNextNoCancel(eng, run, inv) ==
  LET id == newTimerId(eng.timeouts)
  IN  [eng EXCEPT !.timeouts = {t \in eng.timeouts : t.id # id}
                                 \cup {[id |-> id, running |-> run, investMinor |-> inv]},
                  !.timerRef = id]

\* scheduleNext, called from a render with the given running / investMinor
scheduleNext(eng, run, inv) ==
  LET c  == clearTimer(eng)
      id == newTimerId(c.timeouts)
  IN  [c EXCEPT !.timeouts = {t \in c.timeouts : t.id # id}
                               \cup {[id |-> id, running |-> run, investMinor |-> inv]},
                !.timerRef = id]

\* ensurePlan that builds a plan only when there is none
ensurePlanOnce(plan, d, inv) ==
  IF plan = NoPlan THEN buildPlan(d, inv) ELSE plan

\* ensurePlan: rebuild when there is no plan or its day is not today
ensurePlan(plan, d, inv) ==
  IF plan = NoPlan \/ plan.day # d THEN buildPlan(d, inv) ELSE plan

\* the noise factor 0.7 + Math.random() * 0.6, in thousandths
NoiseFactors == {700, 1000, 1299}

\* the body of makeOneOrder once the plan is ensured: the amount of the order
\* (0: none is made) and the new plan
nextOrder(plan, noise) ==
  LET remainingOrders == plan.ordersPlanned - plan.ordersDone
      remainingMinor == Max0(plan.targetSumMinor - plan.producedMinor)
      drawn == RoundDiv(remainingMinor * noise, remainingOrders * 1000)
      slack == remainingMinor - (remainingOrders - 1)
      maxAllowed == IF slack > 1 THEN slack ELSE 1
      floored == IF drawn < 1 THEN 1 ELSE drawn
      sample == IF floored > maxAllowed THEN maxAllowed ELSE floored
  IN  IF plan.ordersPlanned = 0 \/ remainingOrders <= 0
      THEN [sample |-> 0, plan |-> plan]
      ELSE [sample |-> sample,
            plan |-> [plan EXCEPT !.ordersDone = plan.ordersDone + 1,
                                  !.producedMinor = plan.producedMinor + sample]]

makeOneOrder(plan0, d, inv, noise) == nextOrder(ensurePlan(plan0, d, inv), noise)

\* effectCleanup that clears the interval but leaves the timeout pending
effectCleanupKeepsTimer(eng) == [eng EXCEPT !.interval = NoInterval]

\* cleanup of both effects: cancel the timeout, clear the interval
effectCleanup(eng) == [clearTimer(eng) EXCEPT !.interval = NoInterval]

\* runEffects building the plan from an amount that depends on the ledger so far
runEffectsHistorySeeded(eng, d, run, inv) ==
  LET e1 == clearTimer([eng EXCEPT !.planRef = ensurePlan(eng.planRef, d, inv + 100 * Len(ledger))])
      e2 == IF run /\ inv > 0 THEN scheduleNext(e1, run, inv) ELSE e1
  IN  [e2 EXCEPT !.interval = [on |-> TRUE, running |-> run, investMinor |-> inv]]

\* both effects of a render with the given running / investMinor
runEffects(eng, d, run, inv) ==
  LET e1 == clearTimer([eng EXCEPT !.planRef = ensurePlan(eng.planRef, d, inv)])
      e2 == IF run /\ inv > 0 THEN scheduleNext(e1, run, inv) ELSE e1
  IN  [e2 EXCEPT !.interval = [on |-> TRUE, running |-> run, investMinor |-> inv]]

\* rerender with the dependency list [running] only
rerenderRunningOnly(eng, isMounted, d, run0, inv0, run1, inv1) ==
  IF isMounted /\ run0 # run1
  THEN runEffects(effectCleanup(eng), d, run1, inv1)
  ELSE eng

\* a re-render of the mounted Run page: the effects re-run only when one of
\* their dependencies [running, investMinor] changed
rerender(eng, isMounted, d, run0, inv0, run1, inv1) ==
  IF isMounted /\ (run0 # run1 \/ inv0 # inv1)
  THEN runEffects(effectCleanup(eng), d, run1, inv1)
  ELSE eng

(***************************************************************************)
(* Inputs                                                                  *)
(***************************************************************************)
\* the text of the invest field: digits and at most one dot
\* (whole = -1: no digits at all); frac lists the digits after the dot
InvestInputs ==
  { [whole |-> -1,  frac |-> <<>>],
    [whole |-> 0,   frac |-> <<>>],
    [whole |-> 99,  frac |-> <<9, 9>>],
    [whole |-> 100, frac |-> <<>>],
    [whole |-> 100, frac |-> <<0, 0>>],
    [whole |-> 200, frac |-> <<>>] }

WithdrawAmounts == {0, 100, 12000, 20000}

\* requestCryptoWithdrawal({symbol, amountCrypto}), amounts in 1e-6 coin
CryptoWithdrawals ==
  { [symbol |-> "BTC", amountCrypto |-> 0],
    [symbol |-> "BTC", amountCrypto |-> 10000],
    [symbol |-> "ETH", amountCrypto |-> 1000000] }

\* exchange({direction: 'CRYPTO_TO_USDT', symbol, priceUsdtPerCrypto, amountCrypto})
CryptoToUsdt ==
  { [symbol |-> "BTC", price |-> 0,     amountCrypto |-> 10000],
    [symbol |-> "BTC", price |-> 60000, amountCrypto |-> 0],
    [symbol |-> "BTC", price |-> 60000, amountCrypto |-> 10000],
    [symbol |-> "ETH", price |-> 3000,  amountCrypto |-> 1000000] }

\* exchange({direction: 'USDT_TO_CRYPTO', symbol, priceUsdtPerCrypto, amountUsdtMinor})
UsdtToCrypto ==
  { [symbol |-> "ETH", price |-> 0,    amountUsdtMinor |-> 6000],
    [symbol |-> "ETH", price |-> 3000, amountUsdtMinor |-> 0],
    [symbol |-> "ETH", price |-> 3000, amountUsdtMinor |-> 6000],
    [symbol |-> "BTC", price |-> 60000, amountUsdtMinor |-> 9000000] }

(***************************************************************************)
(* store/appStore.ts                                                       *)
(***************************************************************************)
investMinorOf(w) == w.pendingMinor

\* every change of the store re-renders the mounted Run page
engineAfter(w1) ==
  rerender(engine, mounted, today, running, investMinorOf(wallet), running, investMinorOf(w1))

\* manualPayout: credit accruedMinor to the wallet, once
manualPayoutSync ==
  /\ IF accruedMinor <= 0
     THEN UNCHANGED storeVars
     ELSE /\ Len(ledger) + 1 <= MaxLedger
          /\ wallet' = [wallet EXCEPT !.availableMinor = Plus(wallet.availableMinor, accruedMinor)]
          /\ accruedMinor' = 0
          /\ ledger' = <<Entry("PAYOUT", accruedMinor, "USD", "payout")>> \o ledger
          /\ UNCHANGED assets
  /\ result' = Ok("manualPayout")
  /\ UNCHANGED <<today, pageVars, bootStage>>

\* manualPayout that credits the wallet and keeps accruedMinor
manualPayoutKeepsAccrued ==
  /\ IF accruedMinor <= 0
     THEN UNCHANGED storeVars
     ELSE /\ Len(ledger) + 1 <= MaxLedger
          /\ wallet' = [wallet EXCEPT !.availableMinor = Plus(wallet.availableMinor, accruedMinor)]
          /\ accruedMinor' = accruedMinor
          /\ ledger' = <<Entry("PAYOUT", accruedMinor, "USD", "payout")>> \o ledger
          /\ UNCHANGED assets
  /\ result' = Ok("manualPayout")
  /\ UNCHANGED <<today, pageVars, bootStage, awaiting>>

\* manualPayout, awaited by its caller: the call and its latency in one step
manualPayout == manualPayoutSync /\ UNCHANGED awaiting

\* the 1% fee of a fiat withdrawal: Math.round(amountMinor * 0.01)
withdrawalFee(amountMinor) ==
  IF isFinite(amountMinor) THEN RoundDiv(amountMinor, 100) ELSE amountMinor

\* the balance check of requestWithdrawal
withdrawalRefused(amountMinor, w) == Greater(amountMinor, w.availableMinor)

\* withdrawalEntries without the entry for the fee
withdrawalEntriesNoFee(amountMinor, feeMinor) ==
  << Entry("WITHDRAWAL_REQUEST", Negate(amountMinor), "USD", "wd") >>

\* the two ledger entries of a fiat withdrawal, request first
withdrawalEntries(amountMinor, feeMinor) ==
  << Entry("WITHDRAWAL_REQUEST", Negate(amountMinor), "USD", "wd"),
     Entry("WITHDRAWAL_FEE", Negate(feeMinor), "USD", "fee") >>

requestWithdrawalSync(amountMinor) ==
  /\ IF AtMostZero(amountMinor)
     THEN /\ result' = Fail("requestWithdrawal", "Invalid amount.")
          /\ UNCHANGED <<storeVars, engine>>
     ELSE IF withdrawalRefused(amountMinor, wallet)
     THEN /\ result' = Fail("requestWithdrawal", "Insufficient balance.")
          /\ UNCHANGED <<storeVars, engine>>
     ELSE LET feeMinor == withdrawalFee(amountMinor)
              w1 == [wallet EXCEPT
                       !.availableMinor = Minus(Minus(wallet.availableMinor, amountMinor), feeMinor),
                       !.pendingMinor = Plus(wallet.pendingMinor, amountMinor)]
          IN  /\ Len(ledger) + 2 <= MaxLedger
              /\ wallet' = w1
              /\ ledger' = withdrawalEntries(amountMinor, feeMinor) \o ledger
              /\ engine' = engineAfter(w1)
              /\ result' = Ok("requestWithdrawal")
              /\ UNCHANGED <<assets, accruedMinor>>
  /\ UNCHANGED <<today, mounted, running, panelRunning, address, lsRunning, lsAddress, bootStage>>

\* requestWithdrawal, awaited by its caller: the call and its latency in one step
requestWithdrawal(amountMinor) == requestWithdrawalSync(amountMinor) /\ UNCHANGED awaiting

holding(a, symbol) == IF symbol = "BTC" THEN a.btc ELSE a.eth

withHolding(a, symbol, v) ==
  IF symbol = "BTC" THEN [a EXCEPT !.btc = v] ELSE [a EXCEPT !.eth = v]

insufficient(symbol) == IF symbol = "BTC" THEN "Insufficient BTC." ELSE "Insufficient ETH."

requestCryptoWithdrawalSync(symbol, amountCrypto) ==
  /\ IF ~isFinite(amountCrypto) \/ amountCrypto <= 0
     THEN /\ result' = Fail("requestCryptoWithdrawal", "Invalid amount.")
          /\ UNCHANGED storeVars
     ELSE LET available == holding(assets, symbol)
              fee == amountCrypto \div 100
              total == amountCrypto + fee
          IN  IF total > available
              THEN /\ result' = Fail("requestCryptoWithdrawal", insufficient(symbol))
                   /\ UNCHANGED storeVars
              ELSE /\ Len(ledger) + 1 <= MaxLedger
                   /\ assets' = withHolding(assets, symbol, Max0(available - total))
                   /\ ledger' = <<Entry("WITHDRAWAL_REQUEST", 0, symbol, IF symbol = "BTC" THEN "wd_BTC" ELSE "wd_ETH")>> \o ledger
                   /\ result' = Ok("requestCryptoWithdrawal")
                   /\ UNCHANGED <<wallet, accruedMinor>>
  /\ UNCHANGED <<today, pageVars, bootStage>>

\* requestCryptoWithdrawal deducting the holding before the balance check
requestCryptoWithdrawalDeductFirst(symbol, amountCrypto) ==
  /\ IF ~isFinite(amountCrypto) \/ amountCrypto <= 0
     THEN /\ result' = Fail("requestCryptoWithdrawal", "Invalid amount.")
          /\ UNCHANGED storeVars
     ELSE LET available == holding(assets, symbol)
              total == amountCrypto + (amountCrypto \div 100)
          IN  /\ assets' = withHolding(assets, symbol, Max0(available - total))
              /\ IF total > available
                 THEN /\ result' = Fail("requestCryptoWithdrawal", insufficient(symbol))
                      /\ UNCHANGED <<wallet, accruedMinor, ledger>>
                 ELSE /\ Len(ledger) + 1 <= MaxLedger
                      /\ ledger' = <<Entry("WITHDRAWAL_REQUEST", 0, symbol,
                                           IF symbol = "BTC" THEN "wd_BTC" ELSE "wd_ETH")>> \o ledger
                      /\ result' = Ok("requestCryptoWithdrawal")
                      /\ UNCHANGED <<wallet, accruedMinor>>
  /\ UNCHANGED <<today, pageVars, bootStage, awaiting>>

\* requestCryptoWithdrawal, awaited by its caller: the call and its latency in one step
requestCryptoWithdrawal(symbol, amountCrypto) == requestCryptoWithdrawalSync(symbol, amountCrypto) /\ UNCHANGED awaiting

\* usdtForCrypto in whole USDT instead of minor units
usdtForCryptoMain(amountCrypto, price) == RoundDiv(amountCrypto * price, 1000000)

\* Math.round(amountCrypto * priceUsdtPerCrypto * 100), amountCrypto in 1e-6 coin
usdtForCrypto(amountCrypto, price) ==
  (amountCrypto \div 10000) * price + RoundDiv((amountCrypto % 10000) * price, 10000)

\* amountUsdtMinor / 100 / priceUsdtPerCrypto, in 1e-6 coin
cryptoForUsdt(amountUsdtMinor, price) == (amountUsdtMinor * 10000) \div price

exchangeCryptoToUsdtSync(symbol, price, amt) ==
  /\ IF ~isFinite(price) \/ price <= 0
     THEN /\ result' = Fail("exchange", "Invalid price.")
          /\ UNCHANGED storeVars
     ELSE IF ~isFinite(amt) \/ amt <= 0
     THEN /\ result' = Fail("exchange", "Invalid amount.")
          /\ UNCHANGED storeVars
     ELSE IF amt > holding(assets, symbol)
     THEN /\ result' = Fail("exchange", insufficient(symbol))
          /\ UNCHANGED storeVars
     ELSE LET usdtToAddMinor == usdtForCrypto(amt, price)
              a1 == withHolding(assets, symbol, Max0(holding(assets, symbol) - amt))
          IN  /\ Len(ledger) + 1 <= MaxLedger
              /\ assets' = [a1 EXCEPT !.usdtMinor = assets.usdtMinor + usdtToAddMinor]
              /\ wallet' = [wallet EXCEPT !.availableMinor = Plus(wallet.availableMinor, usdtToAddMinor)]
              /\ ledger' = <<Entry("ADJUSTMENT", usdtToAddMinor, "USD",
                                    IF symbol = "BTC" THEN "EX_BTC_TO_USDT" ELSE "EX_ETH_TO_USDT")>> \o ledger
              /\ result' = Ok("exchange")
              /\ UNCHANGED accruedMinor
  /\ UNCHANGED <<today, pageVars, bootStage>>

\* exchangeCryptoToUsdt, awaited by its caller: the call and its latency in one step
exchangeCryptoToUsdt(symbol, price, amt) == exchangeCryptoToUsdtSync(symbol, price, amt) /\ UNCHANGED awaiting

exchangeUsdtToCryptoSync(symbol, price, amtMinor) ==
  /\ IF ~isFinite(price) \/ price <= 0
     THEN /\ result' = Fail("exchange", "Invalid price.")
          /\ UNCHANGED storeVars
     ELSE IF ~isFinite(amtMinor) \/ amtMinor <= 0
     THEN /\ result' = Fail("exchange", "Invalid amount.")
          /\ UNCHANGED storeVars
     ELSE IF amtMinor > assets.usdtMinor \/ Greater(amtMinor, wallet.availableMinor)
     THEN /\ result' = Fail("exchange", "Insufficient USDT.")
          /\ UNCHANGED storeVars
     ELSE LET a1 == [assets EXCEPT !.usdtMinor = assets.usdtMinor - amtMinor]
          IN  /\ Len(ledger) + 1 <= MaxLedger
              /\ assets' = withHolding(a1, symbol, holding(a1, symbol) + cryptoForUsdt(amtMinor, price))
              /\ wallet' = [wallet EXCEPT !.availableMinor = Minus(wallet.availableMinor, amtMinor)]
              /\ ledger' = <<Entry("ADJUSTMENT", -amtMinor, "USD",
                                    IF symbol = "BTC" THEN "EX_USDT_TO_BTC" ELSE "EX_USDT_TO_ETH")>> \o ledger
              /\ result' = Ok("exchange")
              /\ UNCHANGED accruedMinor
  /\ UNCHANGED <<today, pageVars, bootStage>>

\* exchangeUsdtToCrypto, awaited by its caller: the call and its latency in one step
exchangeUsdtToCrypto(symbol, price, amtMinor) == exchangeUsdtToCryptoSync(symbol, price, amtMinor) /\ UNCHANGED awaiting

(***************************************************************************)
(* components/run/RunControlPanel.tsx                                      *)
(***************************************************************************)
MIN_MINOR == 100 * 100

RECURSIVE fracThousandths(_, _)
fracThousandths(frac, i) ==
  IF i > 3 \/ i > Len(frac) THEN 0
  ELSE frac[i] * Pow2(3 - i) * (IF i = 1 THEN 25 ELSE IF i = 2 THEN 5 ELSE 1)
       + fracThousandths(frac, i + 1)

\* parseInvestMinor: parseFloat, reject non-finite and <= 0, Math.round(v * 100)
parseInvestMinor(input) ==
  LET v1000 == input.whole * 1000 + fracThousandths(input.frac, 1)
  IN  IF input.whole < 0 \/ v1000 <= 0 THEN NaN ELSE RoundDiv(v1000, 10)

\* startRefusal with the minimum compared by <= instead of <
startRefusalStrictMin(input, hasAddress, w) ==
  LET investMinor == parseInvestMinor(input)
  IN  IF ~hasAddress THEN "run.needAddress"
      ELSE IF investMinor = NaN THEN "run.investInvalid"
      ELSE IF investMinor <= MIN_MINOR THEN "run.min100"
      ELSE IF investMinor > w.availableMinor THEN "run.investExceed"
      ELSE ""

\* the checks of handleStart, in order; "" when the start goes ahead
startRefusal(input, hasAddress, w) ==
  LET investMinor == parseInvestMinor(input)
  IN  IF ~hasAddress THEN "run.needAddress"
      ELSE IF investMinor = NaN THEN "run.investInvalid"
      ELSE IF investMinor < MIN_MINOR THEN "run.min100"
      ELSE IF investMinor > w.availableMinor THEN "run.investExceed"
      ELSE ""

\* investedWallet deducting the amount without adding it to pending
investedWalletNoPending(w, investMinor) ==
  [w EXCEPT !.availableMinor = w.availableMinor - investMinor]

\* the wallet after the invested amount is moved from available to pending
investedWallet(w, investMinor) ==
  [w EXCEPT !.availableMinor = w.availableMinor - investMinor,
            !.pendingMinor = w.pendingMinor + investMinor]

handleStart(input) ==
  /\ mounted
  /\ ~panelRunning
  /\ LET refusal == startRefusal(input, address, wallet)
         investMinor == parseInvestMinor(input)
         w1 == investedWallet(wallet, investMinor)
     IN  IF refusal # ""
         THEN /\ result' = Fail("handleStart", refusal)
              /\ UNCHANGED <<storeVars, running, panelRunning, lsRunning, engine>>
         ELSE /\ Len(ledger) + 1 <= MaxLedger
              /\ wallet' = w1
              /\ ledger' = <<Entry("ADJUSTMENT", -investMinor, "USD", "run-invest")>> \o ledger
              /\ running' = TRUE
              /\ panelRunning' = TRUE
              /\ lsRunning' = TRUE
              /\ engine' = rerender(engine, mounted, today, running, investMinorOf(wallet),
                                    TRUE, investMinorOf(w1))
              /\ result' = Ok("handleStart")
              /\ UNCHANGED <<assets, accruedMinor>>
  /\ UNCHANGED <<today, mounted, address, lsAddress, bootStage, awaiting>>

doStop ==
  /\ mounted
  /\ panelRunning
  /\ running' = FALSE
  /\ panelRunning' = FALSE
  /\ lsRunning' = FALSE
  /\ engine' = rerender(engine, mounted, today, running, investMinorOf(wallet),
                        FALSE, investMinorOf(wallet))
  /\ result' = Ok("doStop")
  /\ UNCHANGED <<storeVars, today, mounted, address, lsAddress, bootStage, awaiting>>

(***************************************************************************)
(* pages/Run.tsx and components/run/RunAddressBinder.tsx                   *)
(***************************************************************************)
mountRunPage ==
  /\ ~mounted
  /\ mounted' = TRUE
  /\ running' = lsRunning
  /\ panelRunning' = lsRunning
  /\ address' = lsAddress
  /\ engine' = runEffects(FreshEngine, today, lsRunning, investMinorOf(wallet))
  /\ result' = NoResult
  /\ UNCHANGED <<storeVars, today, lsRunning, lsAddress, bootStage, awaiting>>

unmountRunPage ==
  /\ mounted
  /\ mounted' = FALSE
  /\ running' = FALSE
  /\ panelRunning' = FALSE
  /\ address' = FALSE
  /\ engine' = [effectCleanup(engine) EXCEPT !.planRef = NoPlan]
  /\ result' = NoResult
  /\ UNCHANGED <<storeVars, today, lsRunning, lsAddress, bootStage, awaiting>>

\* RunAddressBinder.handleSave with a well-formed address
handleSave ==
  /\ mounted
  /\ ~address
  /\ lsAddress' = TRUE
  /\ address' = TRUE
  /\ result' = NoResult
  /\ UNCHANGED <<storeVars, today, mounted, running, panelRunning, lsRunning, engine, bootStage, awaiting>>

\* makeOneOrder's profitUsd = sample / 100, in 1e-6 USD
profitUsd(sample) == sample * 10000

\* onOrder posting Math.round(o.profitUsd) without the conversion to minor units
onOrderMajor(sample) ==
  <<Entry("EARN", RoundDiv(profitUsd(sample), 1000000), "USD", "run-order")>> \o ledger

\* onOrder: post the order as an EARN entry of Math.round(o.profitUsd * 100)
onOrder(sample) ==
  <<Entry("EARN", RoundDiv(profitUsd(sample) * 100, 1000000), "USD", "run-order")>> \o ledger

\* timerCallback without the check of the plan's remaining orders
timerCallbackNoLimit(t, noise) ==
  /\ t \in engine.timeouts
  /\ LET fired == [engine EXCEPT !.timeouts = engine.timeouts \ {t}]
         plan == ensurePlan(engine.planRef, today, t.investMinor)
     IN  IF ~t.running \/ t.investMinor <= 0
         THEN /\ engine' = fired
              /\ UNCHANGED ledger
         ELSE /\ Len(ledger) + 1 <= MaxLedger
              /\ ledger' = onOrder(1)
              /\ engine' = scheduleNext([fired EXCEPT !.planRef =
                                           [plan EXCEPT !.ordersDone = plan.ordersDone + 1,
                                                        !.producedMinor = plan.producedMinor + 1]],
                                        t.running, t.investMinor)
  /\ result' = NoResult
  /\ UNCHANGED <<wallet, assets, accruedMinor, today, mounted, running, panelRunning,
                 address, lsRunning, lsAddress, bootStage, awaiting>>

\* the callback of a pending emission timeout
timerCallback(t, noise) ==
  /\ t \in engine.timeouts
  /\ LET fired == [engine EXCEPT !.timeouts = engine.timeouts \ {t}]
         plan == ensurePlan(engine.planRef, today, t.investMinor)
         made == makeOneOrder(plan, today, t.investMinor, noise)
     IN  IF ~t.running \/ t.investMinor <= 0
         THEN /\ engine' = fired
              /\ UNCHANGED ledger
         ELSE IF plan.ordersDone >= plan.ordersPlanned
         THEN /\ engine' = [fired EXCEPT !.planRef = plan]
              /\ UNCHANGED ledger
         ELSE /\ Len(ledger) + 1 <= MaxLedger
              /\ ledger' = IF made.sample > 0 THEN onOrder(made.sample) ELSE ledger
              /\ engine' = scheduleNext([fired EXCEPT !.planRef = made.plan],
                                        t.running, t.investMinor)
  /\ result' = NoResult
  /\ UNCHANGED <<wallet, assets, accruedMinor, today, mounted, running, panelRunning,
                 address, lsRunning, lsAddress, bootStage, awaiting>>

\* rolloverCheck that rebuilds the plan whether or not the day changed
rolloverCheckAlways ==
  /\ engine.interval.on
  /\ LET c == engine.interval
         rebuilt == [engine EXCEPT !.planRef = buildPlan(today, c.investMinor)]
     IN  engine' = IF c.running /\ c.investMinor > 0
                   THEN scheduleNext(rebuilt, c.running, c.investMinor)
                   ELSE rebuilt
  /\ result' = NoResult
  /\ UNCHANGED <<storeVars, today, mounted, running, panelRunning, address,
                 lsRunning, lsAddress, bootStage, awaiting>>

\* the callback of the 60 s day-rollover interval
rolloverCheck ==
  /\ engine.interval.on
  /\ LET c == engine.interval
     IN  IF engine.planRef = NoPlan \/ engine.planRef.day # today
         THEN LET rebuilt == [engine EXCEPT !.planRef = buildPlan(today, c.investMinor)]
              IN  engine' = IF c.running /\ c.investMinor > 0
                            THEN scheduleNext(rebuilt, c.running, c.investMinor)
                            ELSE rebuilt
         ELSE UNCHANGED engine
  /\ result' = NoResult
  /\ UNCHANGED <<storeVars, today, mounted, running, panelRunning, address,
                 lsRunning, lsAddress, bootStage, awaiting>>

\* midnight passes
dayPasses ==
  /\ today < MaxDay
  /\ today' = today + 1
  /\ result' = NoResult
  /\ UNCHANGED <<storeVars, pageVars, bootStage, awaiting>>

(***************************************************************************)
(* components/system/DataSyncBootstrapper.tsx.  The server answers with    *)
(* the account as server/routes/auth.ts registers it.                      *)
(***************************************************************************)
ServerWallet == [availableMinor |-> 0, pendingMinor |-> 0]

ServerAssets == [usdtMinor |-> 0, btc |-> 0, eth |-> 0]

ServerLedger == <<>>

bootstrapWallet ==
  /\ bootStage = 0
  /\ bootStage' = 1
  /\ wallet' = ServerWallet
  /\ assets' = ServerAssets
  /\ engine' = engineAfter(ServerWallet)
  /\ result' = NoResult
  /\ UNCHANGED <<accruedMinor, ledger, today, mounted, running, panelRunning, address,
                 lsRunning, lsAddress, awaiting>>

bootstrapLedger ==
  /\ bootStage = 1
  /\ bootStage' = 2
  /\ ledger' = ServerLedger
  /\ result' = NoResult
  /\ UNCHANGED <<wallet, assets, accruedMinor, today, pageVars, awaiting>>

(***************************************************************************)
(* Specification                                                           *)
(***************************************************************************)
Init ==
  /\ wallet = InitWallet
  /\ assets = InitAssets
  /\ accruedMinor = InitAccrued
  /\ ledger = InitLedger
  /\ result = NoResult
  /\ today = 0
  /\ mounted = FALSE
  /\ running = FALSE
  /\ panelRunning = FALSE
  /\ address = FALSE
  /\ lsAddress = FALSE
  /\ lsRunning = FALSE
  /\ engine = FreshEngine
  /\ bootStage = 0
  /\ awaiting = <<>>

Next ==
  \/ manualPayout
  \/ \E a \in WithdrawAmounts : requestWithdrawal(a)
  \/ \E c \in CryptoWithdrawals : requestCryptoWithdrawal(c.symbol, c.amountCrypto)
  \/ \E x \in CryptoToUsdt : exchangeCryptoToUsdt(x.symbol, x.price, x.amountCrypto)
  \/ \E x \in UsdtToCrypto : exchangeUsdtToCrypto(x.symbol, x.price, x.amountUsdtMinor)
  \/ \E input \in InvestInputs : handleStart(input)
  \/ doStop
  \/ mountRunPage
  \/ unmountRunPage
  \/ handleSave
  \/ \E t \in engine.timeouts, noise \in NoiseFactors : timerCallback(t, noise)
  \/ rolloverCheck
  \/ dayPasses
  \/ bootstrapWallet
  \/ bootstrapLedger

Spec == Init /\ [][Next]_vars

(***************************************************************************)
(* The engine alone, for a fixed invested amount.  The wallet has been      *)
(* hydrated from a server account that holds the amount as pendingMinor,   *)
(* the ledger answer is outstanding, and no store action runs.  The Run    *)
(* page is either not mounted yet, or it is running a small plan that has  *)
(* all but LastOrders of its orders behind it.                             *)
(***************************************************************************)
PlanInvests == {0, 100, 10000, 1000000}

LastOrders == 1

\* the plan after its first k orders when targetSumMinor < ordersPlanned: every
\* order is then 1 minor unit (makeOneOrder: maxAllowed = 1), so producedMinor = k
ordersMade(plan, k) ==
  [plan EXCEPT !.ordersDone = k, !.producedMinor = k]

\* the engine of a mounted, running page whose plan of the day is nearly done
lateEngine(d, inv) ==
  scheduleNext([FreshEngine EXCEPT
                  !.planRef = ordersMade(buildPlan(d, inv),
                                         buildPlan(d, inv).ordersPlanned - LastOrders),
                  !.interval = [on |-> TRUE, running |-> TRUE, investMinor |-> inv]],
               TRUE, inv)

PlanInit ==
  /\ \E inv \in PlanInvests : wallet = [availableMinor |-> 0, pendingMinor |-> inv]
  /\ assets = ServerAssets
  /\ accruedMinor = InitAccrued
  /\ ledger = InitLedger
  /\ result = NoResult
  /\ today = 0
  /\ bootStage = 1
  /\ awaiting = <<>>
  /\ lsAddress = TRUE
  /\ lsRunning \in BOOLEAN
  /\ \/ /\ mounted = FALSE
        /\ running = FALSE
        /\ panelRunning = FALSE
        /\ address = FALSE
        /\ engine = FreshEngine
     \/ /\ lsRunning
        /\ wallet.pendingMinor > 0
        /\ buildPlan(today, wallet.pendingMinor).targetSumMinor
             < buildPlan(today, wallet.pendingMinor).ordersPlanned
        /\ mounted = TRUE
        /\ running = TRUE
        /\ panelRunning = TRUE
        /\ address = TRUE
        /\ engine = lateEngine(today, wallet.pendingMinor)

PlanNext ==
  \/ mountRunPage
  \/ unmountRunPage
  \/ doStop
  \/ \E t \in engine.timeouts, noise \in NoiseFactors : timerCallback(t, noise)
  \/ rolloverCheck
  \/ dayPasses

PlanSpec == PlanInit /\ [][PlanNext]_vars

(***************************************************************************)
(* The store alone, called with any number: the Run page is not mounted.   *)
(***************************************************************************)
AnyAmounts == {NaN, Infinity, -100, 0, 100}

AnyPrices == {NaN, Infinity, -60000, 0, 60000}

AnyCrypto == {NaN, Infinity, -10000, 0, 10000}

NumNext ==
  \/ manualPayout
  \/ \E a \in AnyAmounts : requestWithdrawal(a)
  \/ \E symbol \in {"BTC", "ETH"}, a \in AnyCrypto : requestCryptoWithdrawal(symbol, a)
  \/ \E symbol \in {"BTC", "ETH"}, price \in AnyPrices, a \in AnyCrypto :
       exchangeCryptoToUsdt(symbol, price, a)
  \/ \E symbol \in {"BTC", "ETH"}, price \in AnyPrices, a \in AnyAmounts :
       exchangeUsdtToCrypto(symbol, price, a)

NumSpec == Init /\ [][NumNext]_vars

(***************************************************************************)
(* Yesterday's payout status, as the wallet KPI card                       *)
(* (components/WalletKPIGroup.tsx) and the run control panel compute it.   *)
(* isSameDay(e.createdAt, x) is e.day = x; startOfDay(today) - 24h is the  *)
(* day before d.                                                           *)
(***************************************************************************)
\* Math.round(grossMinor * 0.2)
payoutFee(grossMinor) == RoundDiv(grossMinor, 5)

RECURSIVE kpiGross(_, _)
\* the filter / reduce of getYesterdayNumbers (WalletKPIGroup)
kpiGross(entries, y) ==
  IF entries = <<>> THEN 0
  ELSE (IF Head(entries).type \in {"EARN", "COMMISSION"} /\ Head(entries).day = y
        THEN Head(entries).amountMinor ELSE 0) + kpiGross(Tail(entries), y)

RECURSIVE kpiPaid(_, _)
\* the filter / reduce of getYesterdayPayoutStatus (WalletKPIGroup)
kpiPaid(entries, d) ==
  IF entries = <<>> THEN 0
  ELSE (IF Head(entries).type = "PAYOUT" /\ Head(entries).day = d
        THEN Max0(Head(entries).amountMinor) ELSE 0) + kpiPaid(Tail(entries), d)

getYesterdayNumbers(entries, d) ==
  [grossMinor |-> kpiGross(entries, d - 1),
   feeMinor |-> payoutFee(kpiGross(entries, d - 1)),
   netMinor |-> Max0(kpiGross(entries, d - 1) - payoutFee(kpiGross(entries, d - 1)))]

\* getYesterdayPayoutStatus that takes a payment equal to the net for unsent
getYesterdayPayoutStatusStrict(entries, d, yesterdayNetMinor) ==
  IF kpiPaid(entries, d) > yesterdayNetMinor /\ yesterdayNetMinor > 0 THEN "SENT"
  ELSE IF kpiPaid(entries, d) > 0 /\ kpiPaid(entries, d) < yesterdayNetMinor THEN "PARTIAL"
  ELSE "PENDING"

getYesterdayPayoutStatus(entries, d, yesterdayNetMinor) ==
  IF kpiPaid(entries, d) >= yesterdayNetMinor /\ yesterdayNetMinor > 0 THEN "SENT"
  ELSE IF kpiPaid(entries, d) > 0 /\ kpiPaid(entries, d) < yesterdayNetMinor THEN "PARTIAL"
  ELSE "PENDING"

\* the status the KPI card shows
kpiStatus(entries, d) ==
  getYesterdayPayoutStatus(entries, d, getYesterdayNumbers(entries, d).netMinor)

RECURSIVE panelGross(_, _)
\* the filter / reduce of getYesterdayNumbers (RunControlPanel)
panelGross(entries, y) ==
  IF entries = <<>> THEN 0
  ELSE (IF (Head(entries).type = "EARN" \/ Head(entries).type = "COMMISSION")
           /\ Head(entries).day = y
        THEN Head(entries).amountMinor ELSE 0) + panelGross(Tail(entries), y)

RECURSIVE panelPaid(_, _)
\* the filter / reduce of getYesterdayPayoutStatus (RunControlPanel)
panelPaid(entries, d) ==
  IF entries = <<>> THEN 0
  ELSE (IF Head(entries).type = "PAYOUT" /\ Head(entries).day = d
        THEN Max0(Head(entries).amountMinor) ELSE 0) + panelPaid(Tail(entries), d)

panelYesterdayNumbers(entries, d) ==
  [grossMinor |-> panelGross(entries, d - 1),
   feeMinor |-> payoutFee(panelGross(entries, d - 1)),
   netMinor |-> Max0(panelGross(entries, d - 1) - payoutFee(panelGross(entries, d - 1)))]

panelYesterdayPayoutStatus(entries, d, yesterdayNetMinor) ==
  IF panelPaid(entries, d) >= yesterdayNetMinor /\ yesterdayNetMinor > 0 THEN "SENT"
  ELSE IF panelPaid(entries, d) > 0 /\ panelPaid(entries, d) < yesterdayNetMinor THEN "PARTIAL"
  ELSE "PENDING"

\* the status the run control panel shows
panelStatus(entries, d) ==
  panelYesterdayPayoutStatus(entries, d, panelYesterdayNumbers(entries, d).netMinor)

(***************************************************************************)
(* The store hydrated with a ledger of earlier earnings and payouts; the   *)
(* two components render whatever ledger the store holds.                  *)
(***************************************************************************)
HydratedLen == 3

HydratedEntries ==
  { [type |-> "EARN", amountMinor |-> 10000, currency |-> "USD", day |-> -1, refId |-> "day-12"],
    [type |-> "COMMISSION", amountMinor |-> 803, currency |-> "USD", day |-> -1, refId |-> "ref-1"],
    [type |-> "PAYOUT", amountMinor |-> 8000, currency |-> "USD", day |-> 0, refId |-> "payout"],
    [type |-> "PAYOUT", amountMinor |-> 4000, currency |-> "USD", day |-> 0, refId |-> "payout"],
    [type |-> "EARN", amountMinor |-> 10000, currency |-> "USD", day |-> 0, refId |-> "run-order"],
    [type |-> "PAYOUT", amountMinor |-> 8000, currency |-> "USD", day |-> -1, refId |-> "payout-1"] }

StatusInit ==
  /\ wallet = InitWallet
  /\ assets = InitAssets
  /\ accruedMinor = InitAccrued
  /\ \E n \in 0..HydratedLen : ledger \in [1..n -> HydratedEntries]
  /\ result = NoResult
  /\ today = 0
  /\ mounted = FALSE
  /\ running = FALSE
  /\ panelRunning = FALSE
  /\ address = FALSE
  /\ lsAddress = FALSE
  /\ lsRunning = FALSE
  /\ engine = FreshEngine
  /\ bootStage = 2
  /\ awaiting = <<>>

StatusNext ==
  \/ manualPayout
  \/ dayPasses

StatusSpec == StatusInit /\ [][StatusNext]_vars

(***************************************************************************)
(* The Run page alone within one calendar day, with its timers under       *)
(* fairness: a pending emission timeout fires after its 3 to 7 s delay and *)
(* the rollover interval fires every 60 s, while the user may or may not   *)
(* act.  The page is opened on any day of the model, with or without the   *)
(* run_running flag left in localStorage.                                  *)
(***************************************************************************)
LiveInit ==
  /\ wallet = InitWallet
  /\ assets = InitAssets
  /\ accruedMinor = InitAccrued
  /\ ledger = InitLedger
  /\ result = NoResult
  /\ today \in 0..MaxDay
  /\ mounted = FALSE
  /\ running = FALSE
  /\ panelRunning = FALSE
  /\ address = FALSE
  /\ lsAddress = FALSE
  /\ lsRunning \in BOOLEAN
  /\ engine = FreshEngine
  /\ bootStage = 0
  /\ awaiting = <<>>

LiveNext ==
  \/ mountRunPage
  \/ unmountRunPage
  \/ handleSave
  \/ \E input \in InvestInputs : handleStart(input)
  \/ doStop
  \/ \E t \in engine.timeouts, noise \in NoiseFactors : timerCallback(t, noise)
  \/ rolloverCheck

LiveSpec ==
  /\ LiveInit
  /\ [][LiveNext]_vars
  /\ WF_vars(\E t \in engine.timeouts, noise \in NoiseFactors : timerCallback(t, noise))
  /\ WF_vars(rolloverCheck)

(***************************************************************************)
(* The store with overlapping calls.  An async action runs up to its await *)
(* when it is called (get, checks, set), is then suspended for its         *)
(* simulated latency with the wallet and assets objects it wrote still in  *)
(* its scope, and returns when the latency has elapsed.  Latencies differ  *)
(* (600, 500, 150 ms), so suspended calls resume in any order.             *)
(***************************************************************************)
MaxCalls == 2

\* the call made by this step reaches its await and is suspended there
enterAwait ==
  IF result'.ok /\ ledger' # ledger
  THEN /\ Len(awaiting) < MaxCalls
       /\ awaiting' = Append(awaiting, [op |-> result'.op, wallet |-> wallet', assets |-> assets'])
  ELSE awaiting' = awaiting

\* the calls still suspended when the i-th of them has resumed
resumed(calls, i) == SubSeq(calls, 1, i - 1) \o SubSeq(calls, i + 1, Len(calls))

\* latencyElapses that writes the wallet and assets of its scope back to the store
latencyElapsesWritesBack(i) ==
  /\ i \in 1..Len(awaiting)
  /\ awaiting' = resumed(awaiting, i)
  /\ wallet' = awaiting[i].wallet
  /\ assets' = awaiting[i].assets
  /\ result' = Ok(awaiting[i].op)
  /\ UNCHANGED <<accruedMinor, ledger, today, pageVars, bootStage>>

\* the latency of the i-th suspended call has elapsed: the call returns
latencyElapses(i) ==
  /\ i \in 1..Len(awaiting)
  /\ awaiting' = resumed(awaiting, i)
  /\ result' = Ok(awaiting[i].op)
  /\ UNCHANGED <<storeVars, today, pageVars, bootStage>>

AsyncNext ==
  \/ manualPayoutSync /\ enterAwait
  \/ \E a \in WithdrawAmounts : requestWithdrawalSync(a) /\ enterAwait
  \/ \E c \in CryptoWithdrawals : requestCryptoWithdrawalSync(c.symbol, c.amountCrypto) /\ enterAwait
  \/ \E x \in CryptoToUsdt : exchangeCryptoToUsdtSync(x.symbol, x.price, x.amountCrypto) /\ enterAwait
  \/ \E x \in UsdtToCrypto : exchangeUsdtToCryptoSync(x.symbol, x.price, x.amountUsdtMinor) /\ enterAwait
  \/ \E i \in 1..Len(awaiting) : latencyElapses(i)

AsyncSpec == Init /\ [][AsyncNext]_vars

(***************************************************************************)
(* Properties                                                              *)
(***************************************************************************)
\* the entries a step put ahead of the old ledger
added == SubSeq(ledger', 1, Len(ledger') - Len(ledger))

\* the step kept every old entry, in place, behind the new ones
keepsLedger ==
  /\ Len(ledger') >= Len(ledger)
  /\ SubSeq(ledger', Len(ledger') - Len(ledger) + 1, Len(ledger')) = ledger

RECURSIVE sumAmounts(_)
sumAmounts(entries) ==
  IF entries = <<>> THEN 0 ELSE Head(entries).amountMinor + sumAmounts(Tail(entries))

\* the step posted an order: one EARN entry ahead of the old ledger
emits ==
  /\ Len(ledger') = Len(ledger) + 1
  /\ Head(ledger').type = "EARN"
  /\ Tail(ledger') = ledger

\* C1: in every reachable state of a daily plan, producedMinor <= targetSumMinor
C1_ProducedWithinTarget ==
  engine.planRef.producedMinor <= engine.planRef.targetSumMinor

\* C2: wallet.availableMinor >= 0 in every state reachable by start-run,
\* manualPayout, requestWithdrawal and exchange calls
C2_AvailableNonNegative == wallet.availableMinor >= 0

\* C3: requestWithdrawal(amountMinor) fails with the insufficient-balance result
\* and leaves the wallet unchanged whenever amountMinor + round(amountMinor * 1%)
\* exceeds availableMinor
C3_FeeCountsAgainstBalance ==
  [][\A a \in WithdrawAmounts :
       (a > 0 /\ a + withdrawalFee(a) > wallet.availableMinor /\ requestWithdrawal(a))
         => (result' = Fail("requestWithdrawal", "Insufficient balance.") /\ wallet' = wallet)]_vars

\* C4: whenever requestWithdrawal, requestCryptoWithdrawal or exchange returns
\* {ok: false}, wallet, assets, accruedMinor and ledger are what they were
\* before the call
C4_FailureChangesNothing ==
  [][(result'.op \in {"requestWithdrawal", "requestCryptoWithdrawal", "exchange"} /\ ~result'.ok)
       => UNCHANGED storeVars]_vars

C4_Witness ==
  /\ result = Fail("requestCryptoWithdrawal", "Insufficient ETH.")
  /\ assets.eth > 0

\* C5: the ledger is append-only: every step that writes it keeps every old
\* entry, unmodified and in order, behind the new ones
C5_LedgerAppendOnly == [][keepsLedger]_vars

\* C6: the signed amounts of the entries a successful start-run, manualPayout,
\* requestWithdrawal or exchange appends sum to its change of availableMinor
C6_EntriesExplainAvailable ==
  [][(result'.ok /\ result'.op \in {"handleStart", "manualPayout", "requestWithdrawal", "exchange"})
       => /\ keepsLedger
          /\ wallet'.availableMinor - wallet.availableMinor = sumAmounts(added)]_vars

C6_Witness ==
  /\ result = Ok("requestWithdrawal")
  /\ Len(ledger) >= 2
  /\ ledger[2].type = "WITHDRAWAL_FEE"
  /\ ledger[2].amountMinor < 0

\* C7: a successful start-run with amount a takes exactly a from availableMinor,
\* adds exactly a to pendingMinor and appends exactly one ADJUSTMENT of -a
C7_StartMovesAvailableToPending ==
  [][(result'.op = "handleStart" /\ result'.ok)
       => LET a == wallet.availableMinor - wallet'.availableMinor
          IN  /\ a > 0
              /\ wallet'.pendingMinor = wallet.pendingMinor + a
              /\ Len(ledger') = Len(ledger) + 1
              /\ Tail(ledger') = ledger
              /\ Head(ledger').type = "ADJUSTMENT"
              /\ Head(ledger').amountMinor = -a]_vars

C7_Witness ==
  /\ result = Ok("handleStart")
  /\ Head(ledger).refId = "run-invest"
  /\ wallet.pendingMinor >= MIN_MINOR

\* C8: start-run is refused, with wallet, ledger and running flag unchanged, when
\* the parsed amount is not a number, below 10,000, above availableMinor, or no
\* address is bound; $100.00 with funds and an address starts, $99.99 does not
C8_StartPreconditions ==
  [][\A input \in InvestInputs :
       handleStart(input)
         => LET m == parseInvestMinor(input)
            IN  /\ (m = NaN \/ m < 10000 \/ m > wallet.availableMinor \/ ~address)
                     => (~result'.ok /\ UNCHANGED <<wallet, ledger, running>>)
                /\ (input = [whole |-> 100, frac |-> <<0, 0>>]
                      /\ wallet.availableMinor >= 10000 /\ address)
                     => (result'.ok /\ running' /\ wallet'.pendingMinor = wallet.pendingMinor + 10000)
                /\ (input = [whole |-> 99, frac |-> <<9, 9>>]) => ~result'.ok]_vars

C8_Witness ==
  /\ result = Fail("handleStart", "run.min100")
  /\ address
  /\ wallet.availableMinor >= MIN_MINOR

\* C9: while the run is stopped or the engine is torn down no emission timeout is
\* pending and no order is posted; stopping changes neither wallet nor ledger
C9_StopCancelsEmission ==
  /\ [](~(mounted /\ running) => engine.timeouts = {})
  /\ [][/\ emits => (mounted /\ running)
        /\ result'.op = "doStop" => (UNCHANGED storeVars /\ engine'.timeouts = {})]_vars

C9_Witness ==
  /\ result = Ok("doStop")
  /\ wallet.pendingMinor > 0
  /\ engine.planRef.ordersDone > 0
  /\ engine.planRef.ordersDone < engine.planRef.ordersPlanned

\* C10: an order is posted only from a state where the running flag is true and
\* wallet.pendingMinor > 0
C10_EmitsOnlyWhileRunningAndInvested ==
  [][emits => (running /\ wallet.pendingMinor > 0)]_vars

C10_Witness ==
  /\ ledger # <<>>
  /\ Head(ledger).refId = "run-order"
  /\ running
  /\ wallet.pendingMinor > 0

\* C11: at every emission the plan's targetSumMinor and ordersPlanned are the
\* ones buildPlan derives from the current wallet.pendingMinor and the current
\* day, also when the amount grew by a later start-run on the same day
C11_PlanFollowsInvestedAmount ==
  [][emits =>
       /\ engine'.planRef.targetSumMinor = buildPlan(today, wallet.pendingMinor).targetSumMinor
       /\ engine'.planRef.ordersPlanned = buildPlan(today, wallet.pendingMinor).ordersPlanned]_vars

\* C12: every emitted order is counted against a plan of the current day, and a
\* plan rebuilt after the day advanced starts from ordersDone = 0 and
\* producedMinor = 0 whatever the progress of the old plan was
C12_RebuildOnDayChange ==
  [][/\ emits =>
          /\ engine'.planRef.day = today
          /\ Head(ledger').day = today
          /\ (engine.planRef.day # today) =>
                /\ engine'.planRef.ordersDone = 1
                /\ engine'.planRef.producedMinor = Head(ledger').amountMinor
     /\ (rolloverCheck /\ engine.planRef.day # today) =>
          /\ engine'.planRef.day = today
          /\ engine'.planRef.ordersDone = 0
          /\ engine'.planRef.producedMinor = 0]_vars

C12_Witness ==
  /\ today = 1
  /\ engine.planRef.day = 1
  /\ engine.planRef.ordersDone >= 1
  /\ Len(ledger) >= 2
  /\ Head(ledger).refId = "run-order"
  /\ Head(ledger).day = 1
  /\ \E i \in 2..Len(ledger) : ledger[i].refId = "run-order" /\ ledger[i].day = 0

RECURSIVE earnedOn(_, _)
earnedOn(entries, d) ==
  IF entries = <<>> THEN 0
  ELSE (IF Head(entries).refId = "run-order" /\ Head(entries).day = d
        THEN Head(entries).amountMinor ELSE 0) + earnedOn(Tail(entries), d)

\* C15: for a fixed invested amount the run-order EARN amounts posted on one
\* calendar day never sum to more than that day's targetSumMinor, across stop,
\* unmount and remount
C15_DailyOrdersWithinTarget ==
  earnedOn(ledger, today) <= buildPlan(today, wallet.pendingMinor).targetSumMinor

\* an emission attempt finds nothing left to do in the plan
nothingLeft(plan) == plan.ordersPlanned = 0 \/ plan.ordersDone >= plan.ordersPlanned

invalidNumber(x) == ~isFinite(x) \/ x <= 0

\* C14: requestWithdrawal, requestCryptoWithdrawal and exchange answer an amount
\* or price that is NaN, non-finite, zero or negative with a failure and leave
\* the store as it is
C14_InvalidNumbersRejected ==
  [][/\ \A a \in AnyAmounts :
          (invalidNumber(a) /\ requestWithdrawal(a))
            => (~result'.ok /\ UNCHANGED storeVars)
     /\ \A symbol \in {"BTC", "ETH"}, a \in AnyCrypto :
          (invalidNumber(a) /\ requestCryptoWithdrawal(symbol, a))
            => (~result'.ok /\ UNCHANGED storeVars)
     /\ \A symbol \in {"BTC", "ETH"}, price \in AnyPrices, a \in AnyCrypto :
          ((invalidNumber(price) \/ invalidNumber(a)) /\ exchangeCryptoToUsdt(symbol, price, a))
            => (~result'.ok /\ UNCHANGED storeVars)
     /\ \A symbol \in {"BTC", "ETH"}, price \in AnyPrices, a \in AnyAmounts :
          ((invalidNumber(price) \/ invalidNumber(a)) /\ exchangeUsdtToCrypto(symbol, price, a))
            => (~result'.ok /\ UNCHANGED storeVars)]_vars

\* x >= 0
AtLeastZero(x) == x # NaN /\ x >= 0

\* C17: wallet.pendingMinor, assets.usdtMinor, assets.btc and assets.eth are >= 0
\* in every state reachable by start-run, requestWithdrawal,
\* requestCryptoWithdrawal and exchange calls
C17_PendingAndAssetsNonNegative ==
  /\ AtLeastZero(wallet.pendingMinor)
  /\ AtLeastZero(assets.usdtMinor)
  /\ AtLeastZero(assets.btc)
  /\ AtLeastZero(assets.eth)

\* C18: manualPayout with accruedMinor > 0 adds exactly accruedMinor to
\* availableMinor, zeroes accruedMinor and prepends one PAYOUT entry of that
\* amount; with accruedMinor <= 0 it changes nothing; availableMinor +
\* accruedMinor is conserved, so a second call credits nothing
C18_ManualPayoutCreditsOnce ==
  [][(result'.op = "manualPayout") =>
       /\ IF accruedMinor > 0
          THEN /\ wallet'.availableMinor = wallet.availableMinor + accruedMinor
               /\ wallet'.pendingMinor = wallet.pendingMinor
               /\ accruedMinor' = 0
               /\ Len(ledger') = Len(ledger) + 1
               /\ Tail(ledger') = ledger
               /\ Head(ledger').type = "PAYOUT"
               /\ Head(ledger').amountMinor = accruedMinor
               /\ UNCHANGED assets
          ELSE UNCHANGED storeVars
       /\ wallet'.availableMinor + accruedMinor' = wallet.availableMinor + accruedMinor]_vars

C18_Witness ==
  /\ result = Ok("manualPayout")
  /\ accruedMinor = 0
  /\ Head(ledger).type # "PAYOUT"
  /\ \E i \in 2..Len(ledger) : ledger[i].refId = "payout" /\ ledger[i].amountMinor = InitAccrued

\* C19: a successful exchange changes assets.usdtMinor and wallet.availableMinor
\* by the same signed amount, prepends one ADJUSTMENT entry of that amount and
\* moves the holding of the chosen symbol only; 0.01 BTC at 60000 gives +60000
C19_ExchangeKeepsUsdtAndAvailableTogether ==
  [][/\ (result' = Ok("exchange")) =>
          /\ assets'.usdtMinor - assets.usdtMinor = wallet'.availableMinor - wallet.availableMinor
          /\ Len(ledger') = Len(ledger) + 1
          /\ Tail(ledger') = ledger
          /\ Head(ledger').type = "ADJUSTMENT"
          /\ Head(ledger').amountMinor = wallet'.availableMinor - wallet.availableMinor
          /\ wallet'.pendingMinor = wallet.pendingMinor
          /\ accruedMinor' = accruedMinor
          /\ wallet'.availableMinor - assets'.usdtMinor = wallet.availableMinor - assets.usdtMinor
     /\ \A x \in CryptoToUsdt :
          (exchangeCryptoToUsdt(x.symbol, x.price, x.amountCrypto) /\ result'.ok) =>
             /\ holding(assets', x.symbol) = holding(assets, x.symbol) - x.amountCrypto
             /\ (x.symbol = "BTC") => (assets'.eth = assets.eth)
             /\ (x.symbol = "ETH") => (assets'.btc = assets.btc)
             /\ (x = [symbol |-> "BTC", price |-> 60000, amountCrypto |-> 10000])
                  => (assets'.usdtMinor = assets.usdtMinor + 60000)
     /\ \A x \in UsdtToCrypto :
          (exchangeUsdtToCrypto(x.symbol, x.price, x.amountUsdtMinor) /\ result'.ok) =>
             /\ assets'.usdtMinor = assets.usdtMinor - x.amountUsdtMinor
             /\ holding(assets', x.symbol) > holding(assets, x.symbol)
             /\ (x.symbol = "BTC") => (assets'.eth = assets.eth)
             /\ (x.symbol = "ETH") => (assets'.btc = assets.btc)]_vars

C19_Witness ==
  /\ result = Ok("exchange")
  /\ Head(ledger).refId = "EX_BTC_TO_USDT"
  /\ Head(ledger).amountMinor = 60000
  /\ assets.btc = InitAssets.btc - 10000

\* the plain sum of the entries of the given types created on day d
RECURSIVE typeSumOn(_, _, _)
typeSumOn(entries, types, d) ==
  IF entries = <<>> THEN 0
  ELSE (IF Head(entries).type \in types /\ Head(entries).day = d
        THEN Head(entries).amountMinor ELSE 0) + typeSumOn(Tail(entries), types, d)

statusInferred(status, gross, fee, net, paidToday) ==
  /\ fee = RoundDiv(20 * gross, 100)
  /\ net = gross - fee
  /\ status = "SENT" <=> (paidToday >= net /\ net > 0)
  /\ status = "PARTIAL" <=> (0 < paidToday /\ paidToday < net)
  /\ status = "PENDING" <=> ~(paidToday >= net /\ net > 0) /\ ~(0 < paidToday /\ paidToday < net)
  /\ gross = 10000 =>
       /\ fee = 2000
       /\ net = 8000
       /\ paidToday = 8000 => status = "SENT"
       /\ paidToday = 4000 => status = "PARTIAL"
       /\ paidToday = 0 => status = "PENDING"

bandEdge(investMinor, ratePercent) == RoundDiv(investMinor * ratePercent, 3000)

\* C21: the day's targetSumMinor lies between round(invested x base / 30 x 100)
\* and round(invested x cap / 30 x 100) of the tier: 30% and 40% below 10,000
\* major units, 60% and 80% from exactly 10,000 on, whatever the day's jitter is
C21_TargetWithinTierBand ==
  (mounted /\ engine.planRef # NoPlan /\ wallet.pendingMinor > 0) =>
     IF wallet.pendingMinor < 10000 * 100
     THEN /\ engine.planRef.targetSumMinor >= bandEdge(wallet.pendingMinor, 30)
          /\ engine.planRef.targetSumMinor <= bandEdge(wallet.pendingMinor, 40)
     ELSE /\ engine.planRef.targetSumMinor >= bandEdge(wallet.pendingMinor, 60)
          /\ engine.planRef.targetSumMinor <= bandEdge(wallet.pendingMinor, 80)

\* C22: accruedMinor is the amount of earnings not yet paid out: an emitted order
\* of E minor units makes accruedMinor grow by E, so that the next manualPayout
\* moves it into availableMinor
C22_OrdersAccrue ==
  [][emits => accruedMinor' = accruedMinor + Head(ledger').amountMinor]_vars

\* the ceiling remainingTargetMinor - (remainingOrders - 1) of a plan's next order
orderCeiling(plan) ==
  Max0(plan.targetSumMinor - plan.producedMinor) - (plan.ordersPlanned - plan.ordersDone - 1)

\* C23: every emitted amount s satisfies s <= remainingTargetMinor -
\* (remainingOrders - 1), both taken from the plan just before the emission
C23_PerOrderCeiling ==
  [][\A t \in engine.timeouts, noise \in NoiseFactors :
       (timerCallback(t, noise) /\ emits)
         => Head(ledger').amountMinor
              <= orderCeiling(ensurePlan(engine.planRef, today, t.investMinor))]_vars

\* the progress of the plan an emission counts against: that of the plan in
\* place, or none when the plan is rebuilt for a new day first
doneBefore == IF engine.planRef.day = today THEN engine.planRef.ordersDone ELSE 0

producedBefore == IF engine.planRef.day = today THEN engine.planRef.producedMinor ELSE 0

\* C24: each emission increments ordersDone by 1, appends exactly one EARN entry
\* whose amountMinor is an integer >= 1 equal to the amount added to
\* producedMinor, and leaves wallet.availableMinor, wallet.pendingMinor and
\* assets unchanged; producedMinor changes in no other way than by an emission
\* or by the plan being rebuilt or dropped, so it equals the sum of the EARN
\* amounts appended since the plan was built
C24_EmissionPostsWhatItCounts ==
  [][/\ emits =>
          /\ Head(ledger').amountMinor >= 1
          /\ engine'.planRef.ordersDone = doneBefore + 1
          /\ engine'.planRef.producedMinor = producedBefore + Head(ledger').amountMinor
          /\ UNCHANGED <<wallet, assets>>
     /\ ~emits =>
          \/ /\ engine'.planRef.producedMinor = engine.planRef.producedMinor
             /\ engine'.planRef.ordersDone = engine.planRef.ordersDone
          \/ /\ engine'.planRef # engine.planRef
             /\ engine'.planRef.producedMinor = 0
             /\ engine'.planRef.ordersDone = 0]_vars

C24_Witness ==
  /\ Len(ledger) >= 2
  /\ ledger[1].refId = "run-order"
  /\ ledger[2].refId = "run-order"
  /\ engine.planRef.day = today
  /\ engine.planRef.ordersDone = 2
  /\ engine.planRef.producedMinor = ledger[1].amountMinor + ledger[2].amountMinor
  /\ engine.planRef.producedMinor > 2

\* C25: the day-rollover check changes nothing when it fires while plan.day is
\* the current day (plan progress, target, order count and the pending emission
\* timer are untouched); after a day change it rebuilds the plan for the new
\* day, so that a further check finds nothing to do, and arms an emission timer
\* only if the run is on and the invested amount is > 0
C25_RolloverCheckIsIdempotent ==
  [][rolloverCheck =>
       IF engine.planRef # NoPlan /\ engine.planRef.day = today
       THEN UNCHANGED <<engine, storeVars>>
       ELSE /\ engine'.planRef = buildPlan(today, wallet.pendingMinor)
            /\ engine'.planRef.day = today
            /\ UNCHANGED storeVars
            /\ IF running /\ wallet.pendingMinor > 0
               THEN /\ Cardinality(engine'.timeouts) = 1
                    /\ \A t \in engine'.timeouts : t.id = engine'.timerRef
               ELSE engine'.timeouts = engine.timeouts /\ engine'.timeouts = {}]_vars

C25_Witness ==
  /\ mounted
  /\ running
  /\ today = 1
  /\ engine.planRef.day = 1
  /\ engine.planRef.ordersDone = 0
  /\ engine.planRef.ordersPlanned > 0
  /\ engine.timeouts # {}
  /\ ledger # <<>>
  /\ Head(ledger).refId = "run-order"
  /\ Head(ledger).day = 0

\* C26: assets.usdtMinor mirrors wallet.availableMinor: from the store's initial
\* state (both 12,000) they stay equal after any sequence of start-run,
\* manualPayout, requestWithdrawal and exchange operations
C26_UsdtMirrorsAvailable == assets.usdtMinor = wallet.availableMinor

\* C27: at most one emission timer is armed at any time, and it is the one
\* timerRef can cancel, over every interleaving of start / stop, changes of the
\* invested amount, timer callbacks and rollover checks; one elapsed delay posts
\* at most one order and leaves at most one timer armed
C27_AtMostOneEmissionTimer ==
  /\ [](/\ Cardinality(engine.timeouts) <= 1
        /\ \A t \in engine.timeouts : t.id = engine.timerRef)
  /\ [][\A t \in engine.timeouts, noise \in NoiseFactors :
          timerCallback(t, noise)
            => /\ Len(ledger') <= Len(ledger) + 1
               /\ Cardinality(engine'.timeouts) <= 1]_vars

C27_Witness ==
  /\ mounted
  /\ running
  /\ today = 1
  /\ Cardinality(engine.timeouts) = 1
  /\ engine.planRef.day = 1
  /\ engine.planRef.ordersDone >= 1
  /\ Len(ledger) >= 2
  /\ ledger[1].refId = "run-order"
  /\ ledger[2].refId = "run-order"

\* the user has just started a run on day d from zero invested capital
startedOn(d) ==
  /\ mounted
  /\ running
  /\ today = d
  /\ result = Ok("handleStart")
  /\ Head(ledger).refId = "run-invest"
  /\ wallet.pendingMinor = -Head(ledger).amountMinor

\* an order was posted on day d
emittedOn(d) ==
  /\ ledger # <<>>
  /\ Head(ledger).refId = "run-order"
  /\ Head(ledger).day = d

\* C28: if the user starts a run on a page mounted with zero invested capital
\* (pendingMinor becomes > 0, running becomes true) and does not stop it or leave
\* the page, then under timer fairness an order is emitted on that calendar day,
\* before the day rolls over
C28_StartedRunEmitsSameDay ==
  \A d \in 0..MaxDay :
    startedOn(d) ~> (emittedOn(d) \/ ~running \/ ~mounted)

\* the entries appended since the store was created, newest first
appended == SubSeq(ledger, 1, Len(ledger) - Len(InitLedger))

RECURSIVE sumOfType(_, _)
\* the sum of the amounts of the entries of the given types
sumOfType(entries, types) ==
  IF entries = <<>> THEN 0
  ELSE (IF Head(entries).type \in types THEN Head(entries).amountMinor ELSE 0)
       + sumOfType(Tail(entries), types)

\* the wallet that the calls recorded in the ledger give when they run one
\* after the other, in the order of their entries
sequentialWallet ==
  [availableMinor |-> InitWallet.availableMinor
                        + sumOfType(appended, {"PAYOUT", "WITHDRAWAL_REQUEST",
                                               "WITHDRAWAL_FEE", "ADJUSTMENT"}),
   pendingMinor |-> InitWallet.pendingMinor - sumOfType(appended, {"WITHDRAWAL_REQUEST"})]

C30_OnlyStartRunChangesInvested ==
  [][mounted =>
       IF result' = Ok("handleStart")
       THEN investMinorOf(wallet') = investMinorOf(wallet) - Head(ledger').amountMinor
       ELSE investMinorOf(wallet') = investMinorOf(wallet)]_vars

====
